---- MODULE Spec2Model ----
(***************************************************************************)
(* honeytail's event pipeline (leash.go): run() wires the parser, the      *)
(* chain of drop / scrub / add goroutines, the sender goroutine            *)
(* (sendToLibhoney) and the response goroutine (handleResponses) around    *)
(* the libhoney transmission client.                                       *)
(*                                                                         *)
(* Go strings are sequences of one-character strings.  Unbuffered channels *)
(* are rendezvous: a value moves in one step from the goroutine blocked at *)
(* the send to the goroutine executing the receive.  time.Sleep is a step  *)
(* of its own that changes nothing but the program counter.                *)
(*                                                                         *)
(* Init is the pipeline with all goroutines started; SpecStart runs run()  *)
(* from its first line (parser lookup, building the chain), and SpecParse  *)
(* feeds the pipeline from a multi-line parser reading log lines.          *)
(***************************************************************************)
EXTENDS Integers, Sequences, FiniteSets, TLC

\* ------------------------------------------------------------------ bounds

\* events the parser writes to toBeSent before ProcessLines returns
MaxEvents == 2
\* largest --num_senders explored
MaxSenders == 1
\* capacity of libhoney's pending-work queue (BlockOnSend blocks beyond it)
SendBufCap == 1
\* capacity of libhoney's responses channel (BlockOnResponse blocks beyond it)
RespCap == 1

\* most fields given to each of --drop_field, --scrub_field, --add_field
MaxFields == 2

\* most log lines the tailer delivers before the lines channel is closed
MaxLines == 4

\* ----------------------------------------------------------- strings, data

\* "a", "b", "c": field names; "x", "1": values; "=": the add separator
kA == <<"a">>
kB == <<"b">>
kC == <<"c">>

\* an interface{} value of a data map: its dynamic type and its %v rendering
StrVal(s) == [t |-> "string", r |-> s]
IntVal(s) == [t |-> "int", r |-> s]

\* fmt.Sprintf("%v", val)
Sprintf_v(val) == val.r

\* fmt.Sprintf("%x", sha256.Sum256(b)): the digest is a symbolic, injective
\* function of its input; "#" occurs in no input string
Sha256Hex(b) == <<"#">> \o b

\* delete(ev.Data, field)
DeleteKey(data, field) == [k \in DOMAIN data \ {field} |-> data[k]]

\* ev.Data[key] = val
SetKey(data, key, val) ==
  [k \in DOMAIN data \cup {key} |-> IF k = key THEN val ELSE data[k]]

\* index of the first "=" of field, 0 when there is none
RECURSIVE IndexFrom(_, _)
IndexFrom(field, i) ==
  IF i > Len(field) THEN 0
  ELSE IF field[i] = "=" THEN i
  ELSE IndexFrom(field, i + 1)

\* faulty variant: strings.Split(field, "="), the value cut at the second "="
SplitAll2(field) ==
  LET i == IndexFrom(field, 1)
      j == IF i = 0 THEN 0 ELSE IndexFrom(field, i + 1)
  IN
  IF i = 0 THEN <<field>>
  ELSE <<SubSeq(field, 1, i - 1),
         SubSeq(field, i + 1, IF j = 0 THEN Len(field) ELSE j - 1)>>

\* strings.SplitN(field, "=", 2)
SplitN2(field) ==
  LET i == IndexFrom(field, 1) IN
  IF i = 0 THEN <<field>>
  ELSE <<SubSeq(field, 1, i - 1), SubSeq(field, i + 1, Len(field))>>

\* the body of dropEventField's loop
dropEventField(field, data) == DeleteKey(data, field)

\* faulty variant: a value that is already a digest is left alone
scrubEventFieldOnce(field, data) ==
  IF field \in DOMAIN data
       /\ ~(data[field].t = "string" /\ data[field].r # <<>> /\ Head(data[field].r) = "#")
  THEN SetKey(data, field, StrVal(Sha256Hex(Sprintf_v(data[field]))))
  ELSE data

\* the body of scrubEventField's loop
scrubEventField(field, data) ==
  IF field \in DOMAIN data
  THEN SetKey(data, field, StrVal(Sha256Hex(Sprintf_v(data[field]))))
  ELSE data

\* the body of addEventField's loop, key and val split from field before it
addEventField(field, data) ==
  LET splitField == SplitN2(field) IN
  SetKey(data, splitField[1], StrVal(splitField[2]))

\* a stage is [kind, field]
StageApply(stage, data) ==
  CASE stage.kind = "drop"  -> dropEventField(stage.field, data)
    [] stage.kind = "scrub" -> scrubEventField(stage.field, data)
    [] stage.kind = "add"   -> addEventField(stage.field, data)

MkStage(kind, field) == [kind |-> kind, field |-> field]

RECURSIVE StagesOf(_, _)
StagesOf(kind, fields) ==
  IF fields = <<>> THEN <<>>
  ELSE <<MkStage(kind, Head(fields))>> \o StagesOf(kind, Tail(fields))

\* modifyEventContents: one goroutine per drop field, then per scrub field,
\* then per add field, each reading the channel the previous one returned
\* faulty variant: the add goroutines chained ahead of the drop and scrub ones
AddsFirst(options) ==
  StagesOf("add", options.AddFields)
    \o StagesOf("drop", options.DropFields)
    \o StagesOf("scrub", options.ScrubFields)

modifyEventContents(options) ==
  StagesOf("drop", options.DropFields)
    \o StagesOf("scrub", options.ScrubFields)
    \o StagesOf("add", options.AddFields)

\* ------------------------------------------------------------------- state

VARIABLES
  options,        \* GlobalOptions: NumSenders, BackOff, DropFields, ScrubFields, AddFields
  runPC,          \* run(): "parse", "wait", "close", "flush", "exit"
  toEmit,         \* events parser.ProcessLines has still to write to toBeSent
  emitted,        \* history: events written to toBeSent, in order
  stPC,           \* mutator goroutine i: "recv", "send", "exit"
  stEv,           \* the event goroutine i holds
  chClosed,       \* chClosed[0]: toBeSent; chClosed[i]: newSent of goroutine i
  sPC,            \* sendToLibhoney: "delay", "sleep", "retry", "primary",
                  \*   "sendR", "sendP", "idle", "done", "exit"
  sEv,            \* the event sendToLibhoney holds
  toBeResent,     \* chan event.Event, capacity 2*NumSenders
  delaySending,   \* chan int, capacity 2*NumSenders
  pending,        \* libhoney: events accepted by Send and not yet answered
  responses,      \* libhoney.Responses()
  libClosed,      \* libhoney.Close() was called
  hPC,            \* handleResponses: "recv", "delay", "resend", "panic"
  hRsp,           \* the response handleResponses holds
  it,             \* history of the sender's current loop iteration
  primaryHanded,  \* history: ids handed to libhoney from toBeSent, in order
  everRetryable,  \* history: some response was retryable
  everResent,     \* history: some event taken from toBeResent was handed to libhoney
  nDone,          \* history: values written to doneSending
  lines,          \* the log lines the tailer delivers on the lines channel
  nRead,          \* how many of them parser.ProcessLines has read
  group,          \* the lines the parser has buffered for the record at hand
  clientLog,      \* scripted endpoint: the answers it has given, [id, code]
  delayLead       \* history: delays published minus events re-injected

cfgVars  == <<options>>
runVars  == <<runPC, toEmit, emitted>>
chainVars == <<stPC, stEv, chClosed>>
sendVars == <<sPC, sEv>>
retryVars == <<toBeResent, delaySending>>
libVars  == <<pending, responses, libClosed>>
respVars == <<hPC, hRsp>>
histVars == <<it, primaryHanded, everRetryable, everResent, nDone>>
parseVars == <<lines, nRead, group>>
sideVars == <<parseVars, clientLog, delayLead>>

vars == <<options, runPC, toEmit, emitted, stPC, stEv, chClosed, sPC, sEv,
          toBeResent, delaySending, pending, responses, libClosed, hPC, hRsp,
          it, primaryHanded, everRetryable, everResent, nDone,
          lines, nRead, group, clientLog, delayLead>>

\* an event.Event: the parser's id stands for its timestamp
Event(i, data) == [id |-> i, Data |-> data]
NoEvent == [id |-> 0, Data |-> <<>>]

\* a libhoney.Response: status code (0 with rsp.Err set), Metadata
Response(code, meta) == [code |-> code, meta |-> meta]
NoRsp == [code |-> -1, meta |-> NoEvent]

\* the status codes the endpoint answers with; 0 is a transport error
Codes == {0, 200, 429, 500, 503}

\* the data map the parser gives event i
ParserData(i) == (kA :> StrVal(<<"x">>)) @@ (kB :> IntVal(<<"1">>))

RECURSIVE ParserEvents(_, _)
ParserEvents(i, n) ==
  IF i > n THEN <<>> ELSE <<Event(i, ParserData(i))>> \o ParserEvents(i + 1, n)

\* the field options of the pipeline runs explored
NoFields == [DropFields |-> <<>>, ScrubFields |-> <<>>, AddFields |-> <<>>]
OneOfEach ==
  [DropFields |-> <<kA>>, ScrubFields |-> <<kB>>, AddFields |-> <<<<"c", "=", "x">>>>]
FieldOptions == {NoFields, OneOfEach}
OneDrop == [DropFields |-> <<kA>>, ScrubFields |-> <<>>, AddFields |-> <<>>]

MkOptions(n, b, f) ==
  [NumSenders |-> n, BackOff |-> b, DropFields |-> f.DropFields,
   ScrubFields |-> f.ScrubFields, AddFields |-> f.AddFields]

\* the goroutines modifyEventContents started, and their number
Stages == modifyEventContents(options)
NStages == Len(Stages)

\* faulty variant: the retry channels made one slot too large
RetryCapOneMore == 2 * options.NumSenders + 1

\* make(chan ..., 2*options.NumSenders)
RetryCap == 2 * options.NumSenders

\* what the sender saw and did in its current iteration: the length of
\* delaySending at the first select and of toBeResent at the second (-1: not
\* yet executed), whether it slept on a delay, how many events it handed over
NewIteration == [delayLen |-> -1, slept |-> FALSE, retryLen |-> -1, sent |-> 0]

InitPipeline(opts, events, input) ==
  /\ options = opts
  /\ lines = input
  /\ nRead = 0
  /\ group = <<>>
  /\ clientLog = <<>>
  /\ delayLead = 0
  /\ runPC = "parse"
  /\ toEmit = events
  /\ emitted = <<>>
  /\ stPC = [i \in 1..Len(modifyEventContents(opts)) |-> "recv"]
  /\ stEv = [i \in 1..Len(modifyEventContents(opts)) |-> NoEvent]
  /\ chClosed = [i \in 0..Len(modifyEventContents(opts)) |-> FALSE]
  /\ sPC = "delay"
  /\ sEv = NoEvent
  /\ toBeResent = <<>>
  /\ delaySending = <<>>
  /\ pending = <<>>
  /\ responses = <<>>
  /\ libClosed = FALSE
  /\ hPC = "recv"
  /\ hRsp = NoRsp
  /\ it = NewIteration
  /\ primaryHanded = <<>>
  /\ everRetryable = FALSE
  /\ everResent = FALSE
  /\ nDone = 0

\* the parser's events given outright, no log line to read
InitWith(opts, events) == InitPipeline(opts, events, <<>>)

Init ==
  \E n \in 1..MaxSenders, b \in BOOLEAN, f \in FieldOptions, k \in 0..MaxEvents :
    InitWith(MkOptions(n, b, f), ParserEvents(1, k))

\* ---------------------------------------------------- the unbuffered chain

\* channel 0 is toBeSent, written by the parser; channel i >= 1 is the
\* newSent of mutator goroutine i.  A writer is ready when it is blocked at
\* its send.
WriterReady(c) ==
  IF c = 0 THEN runPC = "parse" /\ toEmit # <<>> ELSE stPC[c] = "send"

WriterEvent(c) == IF c = 0 THEN Head(toEmit) ELSE stEv[c]

\* parser.ProcessLines writes its next event to toBeSent (run, line 88); the
\* receiver is goroutine 1, or the sender when no field option is set
ParserAdvance ==
  /\ toEmit' = Tail(toEmit)
  /\ emitted' = Append(emitted, Head(toEmit))
  /\ UNCHANGED runPC

\* ProcessLines returns once lines is closed; run closes toBeSent and waits
RunCloseToBeSent ==
  /\ runPC = "parse"
  /\ toEmit = <<>>
  /\ nRead = Len(lines)
  /\ group = <<>>
  /\ hPC # "panic"
  /\ chClosed' = [chClosed EXCEPT ![0] = TRUE]
  /\ runPC' = "wait"
  /\ UNCHANGED <<options, sideVars, toEmit, emitted, stPC, stEv, sendVars, retryVars,
                 libVars, respVars, histVars>>

\* faulty variant: a goroutine that receives and mutates but never forwards
StageRecvNoForward(i) ==
  /\ stPC[i] = "recv"
  /\ WriterReady(i - 1)
  /\ hPC # "panic"
  /\ LET ev == WriterEvent(i - 1) IN
       stEv' = [stEv EXCEPT ![i] = Event(ev.id, StageApply(Stages[i], ev.Data))]
  /\ IF i = 1
     THEN /\ ParserAdvance
          /\ UNCHANGED stPC
     ELSE /\ stPC' = [stPC EXCEPT ![i - 1] = "recv"]
          /\ UNCHANGED runVars
  /\ UNCHANGED <<options, sideVars, chClosed, sendVars, retryVars, libVars, respVars,
                 histVars>>

\* for ev := range toBeSent { <mutate ev.Data>; ... : goroutine i receives
\* from channel i-1 and applies its mutation; it then blocks at newSent <- ev
StageRecv(i) ==
  /\ stPC[i] = "recv"
  /\ WriterReady(i - 1)
  /\ hPC # "panic"
  /\ LET ev == WriterEvent(i - 1) IN
       stEv' = [stEv EXCEPT ![i] = Event(ev.id, StageApply(Stages[i], ev.Data))]
  /\ IF i = 1
     THEN /\ ParserAdvance
          /\ stPC' = [stPC EXCEPT ![i] = "send"]
     ELSE /\ stPC' = [stPC EXCEPT ![i] = "send", ![i - 1] = "recv"]
          /\ UNCHANGED runVars
  /\ UNCHANGED <<options, sideVars, chClosed, sendVars, retryVars, libVars, respVars,
                 histVars>>

\* faulty variant: close(newSent) without the range loop having ended
StageCloseUnprompted(i) ==
  /\ stPC[i] = "recv"
  /\ hPC # "panic"
  /\ stPC' = [stPC EXCEPT ![i] = "exit"]
  /\ chClosed' = [chClosed EXCEPT ![i] = TRUE]
  /\ UNCHANGED <<options, sideVars, runVars, stEv, sendVars, retryVars, libVars,
                 respVars, histVars>>

\* the range loop ends when the input channel is closed: close(newSent)
StageClose(i) ==
  /\ stPC[i] = "recv"
  /\ chClosed[i - 1]
  /\ hPC # "panic"
  /\ stPC' = [stPC EXCEPT ![i] = "exit"]
  /\ chClosed' = [chClosed EXCEPT ![i] = TRUE]
  /\ UNCHANGED <<options, sideVars, runVars, stEv, sendVars, retryVars, libVars,
                 respVars, histVars>>

\* ------------------------------------------------------- sendToLibhoney

\* case delay := <-delaySending is ready
DelayPending == delaySending # <<>>

\* faulty variant: the second select never takes its toBeResent case
RetryNeverPending == FALSE

\* case ev := <-toBeResent is ready
RetryPending == toBeResent # <<>>

\* case ev, ok := <-toBeSent is ready with a value: the last goroutine of
\* the chain (the parser when there is none) is blocked at its send
PrimaryReady == WriterReady(NStages)

\* faulty variant: an empty toBeSent is taken for a closed one
ClosedWhenIdle == TRUE

\* faulty variant: the ok of the receive is never looked at
CloseNeverSeen == FALSE

\* case ev, ok := <-toBeSent is ready with ok = false
PrimaryClosed == chClosed[NStages]

\* first select, a delay is pending: take it
SenderDelayTake ==
  /\ sPC = "delay"
  /\ hPC # "panic"
  /\ DelayPending
  /\ delaySending' = Tail(delaySending)
  /\ sPC' = "sleep"
  /\ it' = [NewIteration EXCEPT !.delayLen = Len(delaySending)]
  /\ UNCHANGED <<options, sideVars, runVars, chainVars, sEv, toBeResent, libVars,
                 respVars, primaryHanded, everRetryable, everResent, nDone>>

\* first select, default
SenderDelayDefault ==
  /\ sPC = "delay"
  /\ hPC # "panic"
  /\ ~DelayPending
  /\ sPC' = "retry"
  /\ it' = [NewIteration EXCEPT !.delayLen = Len(delaySending)]
  /\ UNCHANGED <<options, sideVars, runVars, chainVars, sEv, retryVars, libVars,
                 respVars, primaryHanded, everRetryable, everResent, nDone>>

\* time.Sleep(time.Duration(delay) * time.Millisecond)
SenderSleep ==
  /\ sPC = "sleep"
  /\ hPC # "panic"
  /\ sPC' = "retry"
  /\ it' = [it EXCEPT !.slept = TRUE]
  /\ UNCHANGED <<options, sideVars, runVars, chainVars, sEv, retryVars, libVars,
                 respVars, primaryHanded, everRetryable, everResent, nDone>>

\* second select, an event is waiting to be resent: take it
SenderRetryTake ==
  /\ sPC = "retry"
  /\ hPC # "panic"
  /\ RetryPending
  /\ sEv' = Head(toBeResent)
  /\ toBeResent' = Tail(toBeResent)
  /\ sPC' = "sendR"
  /\ it' = [it EXCEPT !.retryLen = Len(toBeResent)]
  /\ UNCHANGED <<options, sideVars, runVars, chainVars, delaySending, libVars, respVars,
                 primaryHanded, everRetryable, everResent, nDone>>

\* second select, default
SenderRetryDefault ==
  /\ sPC = "retry"
  /\ hPC # "panic"
  /\ ~RetryPending
  /\ sPC' = "primary"
  /\ it' = [it EXCEPT !.retryLen = Len(toBeResent)]
  /\ UNCHANGED <<options, sideVars, runVars, chainVars, sEv, retryVars, libVars,
                 respVars, primaryHanded, everRetryable, everResent, nDone>>

\* third select, an event arrives on toBeSent
SenderPrimaryTake ==
  /\ sPC = "primary"
  /\ hPC # "panic"
  /\ PrimaryReady
  /\ sEv' = WriterEvent(NStages)
  /\ sPC' = "sendP"
  /\ IF NStages = 0
     THEN ParserAdvance /\ UNCHANGED stPC
     ELSE stPC' = [stPC EXCEPT ![NStages] = "recv"] /\ UNCHANGED runVars
  /\ UNCHANGED <<options, sideVars, stEv, chClosed, retryVars, libVars, respVars,
                 histVars>>

\* third select, toBeSent is closed: the sender goes on to doneSending <- true
SenderPrimaryClosed ==
  /\ sPC = "primary"
  /\ hPC # "panic"
  /\ ~PrimaryReady
  /\ PrimaryClosed
  /\ sPC' = "done"
  /\ UNCHANGED <<options, sideVars, runVars, chainVars, sEv, retryVars, libVars,
                 respVars, histVars>>

\* third select, default
SenderPrimaryDefault ==
  /\ sPC = "primary"
  /\ hPC # "panic"
  /\ ~PrimaryReady
  /\ ~PrimaryClosed
  /\ sPC' = "idle"
  /\ UNCHANGED <<options, sideVars, runVars, chainVars, sEv, retryVars, libVars,
                 respVars, histVars>>

\* time.Sleep(100 * time.Millisecond), then the next iteration
SenderIdle ==
  /\ sPC = "idle"
  /\ hPC # "panic"
  /\ sPC' = "delay"
  /\ UNCHANGED <<options, sideVars, runVars, chainVars, sEv, retryVars, libVars,
                 respVars, histVars>>

\* where the sender goes after sendEvent(ev) of a resent event: continue
AfterResend == "delay"

\* where the sender goes after sendEvent(ev) of an event of toBeSent: continue
AfterPrimarySend == "delay"

\* sendEvent(ev): libhEv.Metadata = ev; libhEv.Send() blocks while libhoney's
\* pending queue is full (BlockOnSend); then continue
SendEvent ==
  /\ sPC \in {"sendR", "sendP"}
  /\ hPC # "panic"
  /\ Len(pending) < SendBufCap
  /\ pending' = Append(pending, sEv)
  /\ sEv' = NoEvent
  /\ sPC' = (IF sPC = "sendR" THEN AfterResend ELSE AfterPrimarySend)
  /\ it' = [it EXCEPT !.sent = @ + 1]
  /\ primaryHanded' =
       IF sPC = "sendP" THEN Append(primaryHanded, sEv.id) ELSE primaryHanded
  /\ everResent' = (everResent \/ sPC = "sendR")
  /\ UNCHANGED <<options, sideVars, runVars, chainVars, retryVars, responses, libClosed,
                 respVars, everRetryable, nDone>>

\* faulty variant: the return after doneSending <- true is missing
DoneWithoutReturn == "delay"

\* where the sender goes after doneSending <- true: return
AfterDone == "exit"

\* doneSending <- true meets run's <-doneSending
SenderDone ==
  /\ sPC = "done"
  /\ runPC = "wait"
  /\ hPC # "panic"
  /\ sPC' = AfterDone
  /\ runPC' = "close"
  /\ nDone' = nDone + 1
  /\ UNCHANGED <<options, sideVars, toEmit, emitted, chainVars, sEv, retryVars, libVars,
                 respVars, it, primaryHanded, everRetryable, everResent>>

\* ------------------------------------------------ the libhoney client

\* libhoney answers the oldest pending event with a status code and writes
\* the response, Metadata the event sendEvent attached, to its responses
\* channel; BlockOnResponse makes it wait while that channel is full
ClientRespond(code) ==
  /\ pending # <<>>
  /\ Len(responses) < RespCap
  /\ runPC # "exit"
  /\ hPC # "panic"
  /\ pending' = Tail(pending)
  /\ responses' = Append(responses, Response(code, Head(pending)))
  /\ everRetryable' = (everRetryable \/ (options.BackOff /\ code \in {429, 500}))
  /\ UNCHANGED <<options, sideVars, runVars, chainVars, sendVars, retryVars, libClosed,
                 respVars, it, primaryHanded, everResent, nDone>>

\* a response whose Metadata holds no event reaches the responses channel
ClientRespondNoMetadata(code) ==
  /\ pending # <<>>
  /\ Len(responses) < RespCap
  /\ runPC # "exit"
  /\ hPC # "panic"
  /\ pending' = Tail(pending)
  /\ responses' = Append(responses, Response(code, NoEvent))
  /\ UNCHANGED <<options, sideVars, runVars, chainVars, sendVars, retryVars, libClosed,
                 respVars, histVars>>

\* an endpoint that answers the first attempt of an event with 429 and every
\* later attempt with 200
ScriptedCode(ev) ==
  IF \E j \in 1..Len(clientLog) : clientLog[j].id = ev.id THEN 200 ELSE 429

\* libhoney answers the oldest pending event as that endpoint tells it
ClientRespondScripted ==
  /\ pending # <<>>
  /\ Len(responses) < RespCap
  /\ runPC # "exit"
  /\ hPC # "panic"
  /\ LET ev == Head(pending)
         code == ScriptedCode(ev)
     IN
     /\ pending' = Tail(pending)
     /\ responses' = Append(responses, Response(code, ev))
     /\ clientLog' = Append(clientLog, [id |-> ev.id, code |-> code])
     /\ everRetryable' = (everRetryable \/ (options.BackOff /\ code \in {429, 500}))
  /\ UNCHANGED <<options, parseVars, delayLead, runVars, chainVars, sendVars,
                 retryVars, libClosed, respVars, it, primaryHanded, everResent,
                 nDone>>

\* libhoney.Close() is called once run has received from doneSending
RunLibhoneyClose ==
  /\ runPC = "close"
  /\ hPC # "panic"
  /\ libClosed' = TRUE
  /\ runPC' = "flush"
  /\ UNCHANGED <<options, sideVars, toEmit, emitted, chainVars, sendVars, retryVars,
                 pending, responses, respVars, histVars>>

\* libhoney.Close() returns when the pending events are flushed; run returns
RunReturn ==
  /\ runPC = "flush"
  /\ hPC # "panic"
  /\ pending = <<>>
  /\ runPC' = "exit"
  /\ UNCHANGED <<options, sideVars, toEmit, emitted, chainVars, sendVars, retryVars,
                 libVars, respVars, histVars>>

\* ------------------------------------------------------ handleResponses

\* faulty variant: with back-off on every response is retried
RetryableWhateverCode(rsp) == options.BackOff

\* faulty variant: options.BackOff is not consulted
RetryableWithoutBackOff(rsp) == rsp.code = 429 \/ rsp.code = 500

\* options.BackOff && (rsp.StatusCode == 429 || rsp.StatusCode == 500)
Retryable(rsp) == options.BackOff /\ (rsp.code = 429 \/ rsp.code = 500)

\* rsp.Metadata.(event.Event) succeeds
HasEvent(rsp) == rsp.meta # NoEvent

\* for rsp := range responses: build logfields (the type assertion of line
\* 267 panics on a Metadata that holds no event), then decide the retry
HandlerRecv ==
  /\ hPC = "recv"
  /\ runPC # "exit"
  /\ responses # <<>>
  /\ responses' = Tail(responses)
  /\ LET rsp == Head(responses) IN
       IF ~HasEvent(rsp) THEN hPC' = "panic" /\ hRsp' = rsp
       ELSE IF Retryable(rsp) THEN hPC' = "delay" /\ hRsp' = rsp
       ELSE hPC' = "recv" /\ hRsp' = NoRsp
  /\ UNCHANGED <<options, sideVars, runVars, chainVars, sendVars, retryVars, pending,
                 libClosed, histVars>>

\* faulty variant: the handler goes on to re-inject without publishing a delay
HandlerNoDelay ==
  /\ hPC = "delay"
  /\ runPC # "exit"
  /\ hPC' = "resend"
  /\ UNCHANGED <<options, sideVars, runVars, chainVars, sendVars, retryVars,
                 libVars, hRsp, histVars>>

\* delaySending <- 100
HandlerDelay ==
  /\ hPC = "delay"
  /\ runPC # "exit"
  /\ Len(delaySending) < RetryCap
  /\ delaySending' = Append(delaySending, 100)
  /\ hPC' = "resend"
  /\ delayLead' = delayLead + 1
  /\ UNCHANGED <<options, parseVars, clientLog, runVars, chainVars, sendVars,
                 toBeResent, libVars, hRsp, histVars>>

\* toBeResent <- rsp.Metadata.(event.Event)
HandlerResend ==
  /\ hPC = "resend"
  /\ runPC # "exit"
  /\ Len(toBeResent) < RetryCap
  /\ toBeResent' = Append(toBeResent, hRsp.meta)
  /\ hPC' = "recv"
  /\ hRsp' = NoRsp
  /\ delayLead' = delayLead - 1
  /\ UNCHANGED <<options, parseVars, clientLog, runVars, chainVars, sendVars,
                 delaySending, libVars, histVars>>

\* ------------------------------------------------ the multi-line parser

\* the text of the line at position p of the input: one character
Digit(p) == <<"1", "2", "3", "4", "5", "6", "7", "8", "9">>[p]

\* a log line: one that starts a record (leading timestamp, here its
\* position in the input), a continuation line, or a blank line
MkLine(kind, p) ==
  [kind |-> kind,
   ts |-> IF kind = "start" THEN p ELSE 0,
   txt |-> IF kind = "blank" THEN <<>> ELSE <<Digit(p)>>]

LineKinds == {"start", "cont", "blank"}

\* the boundary condition: the line matches the leading-timestamp pattern
IsRecordStart(line) == line.kind = "start"

\* the key of the statement text in the event's data map
kQuery == <<"q">>

\* the lines of a group joined by single spaces, blank lines adding nothing
RECURSIVE JoinLines(_)
JoinLines(g) ==
  IF g = <<>> THEN <<>>
  ELSE LET rest == JoinLines(Tail(g)) IN
       IF Head(g).txt = <<>> THEN rest
       ELSE IF rest = <<>> THEN Head(g).txt
       ELSE Head(g).txt \o <<" ">> \o rest

\* the events a group yields: one, stamped by its first line, when that line
\* starts a record; none for a group that cannot be parsed
EventsOf(g) ==
  IF g # <<>> /\ IsRecordStart(Head(g))
  THEN <<Event(Head(g).ts, (kQuery :> StrVal(JoinLines(g))))>>
  ELSE <<>>

\* the parser reads the next line once its last event is taken from
\* toBeSent: a line that starts a record ends the buffered group, which is
\* emitted; any other line joins the group
ParserReadLine ==
  /\ runPC = "parse"
  /\ hPC # "panic"
  /\ toEmit = <<>>
  /\ nRead < Len(lines)
  /\ nRead' = nRead + 1
  /\ LET line == lines[nRead + 1] IN
       IF IsRecordStart(line) /\ group # <<>>
       THEN /\ toEmit' = EventsOf(group)
            /\ group' = <<line>>
       ELSE /\ group' = Append(group, line)
            /\ UNCHANGED toEmit
  /\ UNCHANGED <<options, lines, clientLog, delayLead, runPC, emitted, chainVars,
                 sendVars, retryVars, libVars, respVars, histVars>>

\* faulty variant: the group buffered at the close of lines is discarded
FlushedNothing(g) == <<>>

\* what the flush at the close of lines emits
FlushedEvents(g) == EventsOf(g)

\* the lines channel is closed and drained: the buffered group is flushed
ParserFlush ==
  /\ runPC = "parse"
  /\ hPC # "panic"
  /\ toEmit = <<>>
  /\ nRead = Len(lines)
  /\ group # <<>>
  /\ toEmit' = FlushedEvents(group)
  /\ group' = <<>>
  /\ UNCHANGED <<options, lines, nRead, clientLog, delayLead, runPC, emitted,
                 chainVars, sendVars, retryVars, libVars, respVars, histVars>>

\* --------------------------------------------------------------- startup

\* GlobalOptions with Reqs.ParserName, as run() receives it
MkStartOptions(p, f) == [ParserName |-> p] @@ MkOptions(1, FALSE, f)

\* getParserAndOptions: the parser the switch on options.Reqs.ParserName
\* selects, "nil" when no case matches
getParserAndOptions(opts) ==
  CASE opts.ParserName = "nginx" -> "nginx.Parser"
    [] opts.ParserName = "json" -> "htjson.Parser"
    [] opts.ParserName \in {"mongo", "mongodb"} -> "mongodb.Parser"
    [] opts.ParserName = "mysql" -> "mysql.Parser"
    [] OTHER -> "nil"

\* run(): parser == nil is fatal ("Parser not found"); otherwise run goes on
\* to create the channels and build the chain
RunGetParser ==
  /\ runPC = "start"
  /\ runPC' = (IF getParserAndOptions(options) = "nil" THEN "noParser" ELSE "chain")
  /\ UNCHANGED <<options, sideVars, toEmit, emitted, chainVars, sendVars, retryVars,
                 libVars, respVars, histVars>>

\* the goroutines modifyEventContents has started so far
BuiltStages == Cardinality({i \in DOMAIN stPC : stPC[i] # "none"})

\* faulty variant: only an empty specification is refused
AddFieldEmptyOnly(field) == field = <<>>

\* addEventField: len(splitField) != 2
AddFieldMalformed(field) == Len(SplitN2(field)) # 2

\* modifyEventContents calls dropEventField, scrubEventField, addEventField
\* for the next configured field: the call starts the goroutine, except that
\* addEventField is fatal on a specification it cannot split
RunBuildStage ==
  /\ runPC = "chain"
  /\ BuiltStages < NStages
  /\ LET i == BuiltStages + 1 IN
       IF Stages[i].kind = "add" /\ AddFieldMalformed(Stages[i].field)
       THEN runPC' = "badAddField" /\ UNCHANGED stPC
       ELSE stPC' = [stPC EXCEPT ![i] = "recv"] /\ UNCHANGED runPC
  /\ UNCHANGED <<options, sideVars, toEmit, emitted, stEv, chClosed, sendVars, retryVars,
                 libVars, respVars, histVars>>

\* go sendToLibhoney(modifiedToBeSent, toBeResent, delaySending, doneSending)
RunStartSender ==
  /\ runPC = "chain"
  /\ BuiltStages = NStages
  /\ sPC' = "delay"
  /\ runPC' = "handler"
  /\ UNCHANGED <<options, sideVars, toEmit, emitted, chainVars, sEv, retryVars, libVars,
                 respVars, histVars>>

\* go handleResponses(responses, toBeResent, delaySending, options); run then
\* calls parser.ProcessLines
RunStartHandler ==
  /\ runPC = "handler"
  /\ hPC' = "recv"
  /\ runPC' = "parse"
  /\ UNCHANGED <<options, sideVars, toEmit, emitted, chainVars, sendVars, retryVars,
                 libVars, hRsp, histVars>>

\* ------------------------------------------------------ specification

Next ==
  \/ RunCloseToBeSent
  \/ \E i \in 1..NStages : StageRecv(i)
  \/ \E i \in 1..NStages : StageClose(i)
  \/ SenderDelayTake
  \/ SenderDelayDefault
  \/ SenderSleep
  \/ SenderRetryTake
  \/ SenderRetryDefault
  \/ SenderPrimaryTake
  \/ SenderPrimaryClosed
  \/ SenderPrimaryDefault
  \/ SenderIdle
  \/ SendEvent
  \/ SenderDone
  \/ \E code \in Codes : ClientRespond(code)
  \/ RunLibhoneyClose
  \/ RunReturn
  \/ HandlerRecv
  \/ HandlerDelay
  \/ HandlerResend

Spec == Init /\ [][Next]_vars

\* One event through every chain of up to MaxFields drop, scrub and add
\* fields over the keys a, b, c, answered 200
SeqsUpTo(S, n) == UNION {[1..k -> S] : k \in 0..n}

MutDropFields == SeqsUpTo({kA, kB}, MaxFields)
MutScrubFields == SeqsUpTo({kA, kB}, MaxFields)
MutAddFields == SeqsUpTo({<<"a", "=", "y">>, <<"c", "=", "y", "=", "1">>}, MaxFields)

\* the parser's data maps: b (an int) alone, or a (a string) and b
MutData == {(kB :> IntVal(<<"1">>)), ParserData(1)}

InitMut ==
  \E dr \in MutDropFields, sc \in MutScrubFields, ad \in MutAddFields, d \in MutData :
    InitWith(MkOptions(1, FALSE,
                       [DropFields |-> dr, ScrubFields |-> sc, AddFields |-> ad]),
             <<Event(1, d)>>)

NextMut ==
  \/ RunCloseToBeSent
  \/ \E i \in 1..NStages : StageRecv(i)
  \/ \E i \in 1..NStages : StageClose(i)
  \/ SenderDelayDefault
  \/ SenderRetryDefault
  \/ SenderPrimaryTake
  \/ SenderPrimaryClosed
  \/ SenderPrimaryDefault
  \/ SenderIdle
  \/ SendEvent
  \/ SenderDone
  \/ ClientRespond(200)
  \/ RunLibhoneyClose
  \/ RunReturn
  \/ HandlerRecv

SpecMut == InitMut /\ [][NextMut]_vars

\* One event through every chain of up to MaxFields scrub fields, a dropped
\* or not
InitScrub ==
  \E dr \in {<<>>, <<kA>>}, sc \in MutScrubFields, d \in MutData :
    InitWith(MkOptions(1, FALSE,
                       [DropFields |-> dr, ScrubFields |-> sc, AddFields |-> <<>>]),
             <<Event(1, d)>>)

SpecScrub == InitScrub /\ [][NextMut]_vars

\* One event through every chain of up to MaxFields add fields, a scrubbed
\* or not
InitAdd ==
  \E sc \in {<<>>, <<kA>>}, ad \in MutAddFields, d \in MutData :
    InitWith(MkOptions(1, FALSE,
                       [DropFields |-> <<>>, ScrubFields |-> sc, AddFields |-> ad]),
             <<Event(1, d)>>)

SpecAdd == InitAdd /\ [][NextMut]_vars

\* The same pipeline fed responses whose Metadata slot may be empty
NextMeta ==
  \/ Next
  \/ \E code \in Codes : ClientRespondNoMetadata(code)

SpecMeta == Init /\ [][NextMeta]_vars

\* Each goroutine that can take a step eventually takes one: the Go scheduler
\* runs every runnable goroutine, and libhoney answers every pending event
SenderStep ==
  \/ SenderDelayTake
  \/ SenderDelayDefault
  \/ SenderSleep
  \/ SenderRetryTake
  \/ SenderRetryDefault
  \/ SenderPrimaryTake
  \/ SenderPrimaryClosed
  \/ SenderPrimaryDefault
  \/ SenderIdle
  \/ SendEvent
  \/ SenderDone

HandlerStep == HandlerRecv \/ HandlerDelay \/ HandlerResend

RunStep == RunCloseToBeSent \/ RunLibhoneyClose \/ RunReturn

StageStep(i) == i \in DOMAIN stPC /\ (StageRecv(i) \/ StageClose(i))

\* the longest chain of goroutines explored
MaxStages == Len(modifyEventContents(OneOfEach))

Fairness ==
  /\ WF_vars(SenderStep)
  /\ WF_vars(HandlerStep)
  /\ WF_vars(RunStep)
  /\ WF_vars(\E code \in Codes : ClientRespond(code))
  /\ \A i \in 1..MaxStages : WF_vars(StageStep(i))

InitFair ==
  \E n \in 1..MaxSenders, b \in BOOLEAN, f \in {NoFields, OneDrop}, k \in 0..MaxEvents :
    InitWith(MkOptions(n, b, f), ParserEvents(1, k))

\* for the question whether run() gets past <-doneSending a status code
\* counts only as retryable or not: one code of each kind
FairCodes == {200, 429}

NextFair ==
  \/ RunCloseToBeSent
  \/ \E i \in 1..NStages : StageRecv(i)
  \/ \E i \in 1..NStages : StageClose(i)
  \/ SenderDelayTake
  \/ SenderDelayDefault
  \/ SenderSleep
  \/ SenderRetryTake
  \/ SenderRetryDefault
  \/ SenderPrimaryTake
  \/ SenderPrimaryClosed
  \/ SenderPrimaryDefault
  \/ SenderIdle
  \/ SendEvent
  \/ SenderDone
  \/ \E code \in FairCodes : ClientRespond(code)
  \/ RunLibhoneyClose
  \/ RunReturn
  \/ HandlerRecv
  \/ HandlerDelay
  \/ HandlerResend

FairSpec == InitFair /\ [][NextFair]_vars /\ Fairness

\* A burst of equal log lines: the parser writes BurstEvents events with the
\* same timestamp and data, as many as the retry loop can hold (libhoney's two
\* queues, toBeResent, and the event each of the sender and the response
\* handler has in hand)
BurstEvents == SendBufCap + RespCap + 2 * MaxSenders + 2

RECURSIVE BurstOf(_)
BurstOf(n) == IF n = 0 THEN <<>> ELSE <<Event(1, ParserData(1))>> \o BurstOf(n - 1)

InitBurst ==
  \E n \in 1..MaxSenders :
    InitWith(MkOptions(n, TRUE, NoFields), BurstOf(BurstEvents))

\* with no field option modifyEventContents starts no goroutine
NextBurst ==
  \/ RunCloseToBeSent
  \/ SenderDelayTake
  \/ SenderDelayDefault
  \/ SenderSleep
  \/ SenderRetryTake
  \/ SenderRetryDefault
  \/ SenderPrimaryTake
  \/ SenderPrimaryClosed
  \/ SenderPrimaryDefault
  \/ SenderIdle
  \/ SendEvent
  \/ SenderDone
  \/ \E code \in Codes : ClientRespond(code)
  \/ RunLibhoneyClose
  \/ RunReturn
  \/ HandlerRecv
  \/ HandlerDelay
  \/ HandlerResend

SpecBurst == InitBurst /\ [][NextBurst]_vars


\* run() from its first line: every --parser_name of the usage text, the
\* alias mongodb and an unknown name, with field options that are well
\* formed, that hold an add specification without "=", or one with nothing
\* before the "="
ParserNameInputs ==
  {"nginx", "json", "mongo", "mongodb", "mysql", "postgresql", "xml"}

NoEqAdd ==
  [DropFields |-> <<kA>>, ScrubFields |-> <<>>,
   AddFields |-> <<<<"c", "=", "x">>, <<"c">>>>]
EmptyKeyAdd ==
  [DropFields |-> <<>>, ScrubFields |-> <<>>, AddFields |-> <<<<"=", "x">>>>]
StartFields == {OneOfEach, NoEqAdd, EmptyKeyAdd}

InitStart ==
  \E p \in ParserNameInputs, f \in StartFields, k \in 0..MaxEvents :
    /\ options = MkStartOptions(p, f)
    /\ runPC = "start"
    /\ toEmit = ParserEvents(1, k)
    /\ emitted = <<>>
    /\ stPC = [i \in 1..Len(modifyEventContents(f)) |-> "none"]
    /\ stEv = [i \in 1..Len(modifyEventContents(f)) |-> NoEvent]
    /\ chClosed = [i \in 0..Len(modifyEventContents(f)) |-> FALSE]
    /\ sPC = "none"
    /\ sEv = NoEvent
    /\ toBeResent = <<>>
    /\ delaySending = <<>>
    /\ pending = <<>>
    /\ responses = <<>>
    /\ libClosed = FALSE
    /\ hPC = "none"
    /\ hRsp = NoRsp
    /\ it = NewIteration
    /\ primaryHanded = <<>>
    /\ everRetryable = FALSE
    /\ everResent = FALSE
    /\ nDone = 0
    /\ lines = <<>>
    /\ nRead = 0
    /\ group = <<>>
    /\ clientLog = <<>>
    /\ delayLead = 0

NextStart ==
  \/ RunGetParser
  \/ RunBuildStage
  \/ RunStartSender
  \/ RunStartHandler
  \/ NextMut

SpecStart == InitStart /\ [][NextStart]_vars

\* Back-off on, no field option, up to MaxEvents distinct events, and the
\* endpoint that answers 429 once per event and 200 from then on
InitScript ==
  \E n \in 1..MaxSenders, k \in 1..MaxEvents :
    InitWith(MkOptions(n, TRUE, NoFields), ParserEvents(1, k))

NextScript ==
  \/ RunCloseToBeSent
  \/ SenderDelayTake
  \/ SenderDelayDefault
  \/ SenderSleep
  \/ SenderRetryTake
  \/ SenderRetryDefault
  \/ SenderPrimaryTake
  \/ SenderPrimaryClosed
  \/ SenderPrimaryDefault
  \/ SenderIdle
  \/ SendEvent
  \/ SenderDone
  \/ ClientRespondScripted
  \/ RunLibhoneyClose
  \/ RunReturn
  \/ HandlerRecv
  \/ HandlerDelay
  \/ HandlerResend

SpecScript == InitScript /\ [][NextScript]_vars

\* The pipeline fed by the multi-line parser: every input of up to MaxLines
\* lines, no field option, every event answered 200
InitParse ==
  \E n \in 0..MaxLines :
    \E kinds \in [1..n -> LineKinds] :
      InitPipeline(MkOptions(1, FALSE, NoFields), <<>>,
                   [p \in 1..n |-> MkLine(kinds[p], p)])

NextParse ==
  \/ ParserReadLine
  \/ ParserFlush
  \/ RunCloseToBeSent
  \/ SenderDelayDefault
  \/ SenderRetryDefault
  \/ SenderPrimaryTake
  \/ SenderPrimaryClosed
  \/ SenderPrimaryDefault
  \/ SenderIdle
  \/ SendEvent
  \/ SenderDone
  \/ ClientRespond(200)
  \/ RunLibhoneyClose
  \/ RunReturn
  \/ HandlerRecv

SpecParse == InitParse /\ [][NextParse]_vars
\* ------------------------------------------------------------ properties

Range(seq) == {seq[i] : i \in 1..Len(seq)}

\* the ids of the events the parser wrote to toBeSent, in order
EmittedIds == [i \in 1..Len(emitted) |-> emitted[i].id]

IsPrefix(a, b) == Len(a) <= Len(b) /\ a = SubSeq(b, 1, Len(a))

\* C1: in every iteration of the sender loop an event of toBeSent is about to
\* be handed to libhoney only if the second select of that iteration found
\* toBeResent empty; an event (resent or not) is about to be handed over only
\* if a delay that was pending at the first select of that iteration has been
\* taken and slept on; and no iteration hands over more than one event.
SenderPriority ==
  /\ sPC = "sendP" => it.retryLen = 0
  /\ sPC = "sendR" => it.retryLen > 0
  /\ sPC \in {"sendR", "sendP"} => it.delayLen >= 0 /\ (it.delayLen > 0 => it.slept)
  /\ sPC \in {"sendR", "sendP"} => it.sent = 0
  /\ it.sent <= 1

\* a resent event is about to be handed over, after the sleep, while an event
\* of toBeSent is waiting
SenderPriorityWitness ==
  /\ sPC = "sendR"
  /\ it.delayLen > 0
  /\ it.slept
  /\ PrimaryReady

\* C2: the response handler goes on to publish a delay and re-inject exactly
\* when back-off is on and the status code is 429 or 500.  Every response it
\* takes is either dropped at once, leaving delaySending and toBeResent as
\* they are, or (back-off on, code 429 or 500) kept; it leaves a kept
\* response only by writing 100 to delaySending and then the response's event
\* to toBeResent; nothing else is ever written to either channel.
HandlerRetryRule ==
  [][/\ Len(responses') < Len(responses) =>
          LET rsp == Head(responses) IN
          IF options.BackOff /\ rsp.code \in {429, 500}
          THEN hPC' = "delay" /\ hRsp' = rsp
          ELSE hPC' = "recv" /\ hRsp' = NoRsp
     /\ hPC \in {"delay", "resend"} =>
          options.BackOff /\ hRsp.code \in {429, 500}
     /\ hPC # hPC' /\ hPC = "delay" =>
          hPC' = "resend" /\ delaySending' = Append(delaySending, 100)
     /\ hPC # hPC' /\ hPC = "resend" =>
          hPC' = "recv" /\ toBeResent' = Append(toBeResent, hRsp.meta)
     /\ Len(delaySending') > Len(delaySending) =>
          hPC = "delay" /\ hPC' = "resend"
     /\ Len(toBeResent') > Len(toBeResent) =>
          hPC = "resend" /\ hPC' = "recv"
    ]_vars

\* the handler has published a delay and re-injected the event of a
\* retryable response, and has since dropped a response that was not
HandlerRetryRuleWitness ==
  /\ options.BackOff
  /\ hPC = "recv"
  /\ hRsp = NoRsp
  /\ delaySending = <<100>>
  /\ Len(toBeResent) = 1
  /\ pending = <<>>
  /\ responses = <<>>
  /\ Len(primaryHanded) = 2

\* C3: toBeResent never holds more than 2 * NumSenders events, also when
\* more events than that are answered 429 or 500.
RetryBounded == Len(toBeResent) <= 2 * options.NumSenders

\* toBeResent is full and the handler holds one more event to re-inject
RetryBoundedWitness ==
  /\ Len(toBeResent) = 2 * options.NumSenders
  /\ hPC = "resend"

\* C4: on the path from toBeSent no event is handed to libhoney twice, only
\* events the parser wrote are handed over, libhoney.Close() is called only
\* after the done signal, and when the done signal is given every event the
\* parser wrote has been handed over.
PrimaryExactlyOnce ==
  /\ \A i, j \in 1..Len(primaryHanded) : i # j => primaryHanded[i] # primaryHanded[j]
  /\ Range(primaryHanded) \subseteq Range(EmittedIds)
  /\ libClosed => nDone = 1
  /\ nDone >= 1 =>
       /\ chClosed[0]
       /\ toEmit = <<>>
       /\ Range(primaryHanded) = Range(EmittedIds)
       /\ Len(primaryHanded) = Len(emitted)

\* libhoney is closed after MaxEvents events went through the mutator
\* goroutines, one of them handed over a second time from toBeResent
PrimaryExactlyOnceWitness ==
  /\ libClosed
  /\ NStages > 0
  /\ Len(primaryHanded) = MaxEvents
  /\ everResent

\* C5: as long as no response was retryable, the events handed to libhoney
\* are, in order, those the parser wrote to toBeSent (none was handed over
\* from toBeResent), and at the done signal the two sequences are equal.
OrderPreserved ==
  ~everRetryable =>
    /\ ~everResent
    /\ IsPrefix(primaryHanded, EmittedIds)
    /\ nDone >= 1 => primaryHanded = EmittedIds /\ toEmit = <<>>

\* done is signalled after MaxEvents events went through three goroutines
\* and were answered without a retryable failure
OrderPreservedWitness ==
  /\ ~everRetryable
  /\ nDone = 1
  /\ NStages = 3
  /\ primaryHanded = EmittedIds
  /\ Len(emitted) = MaxEvents
  /\ MaxEvents >= 2

\* C6: the sender has returned exactly when it has given the done signal,
\* which it gives once, with toBeSent closed and all its events handed over;
\* from then on no event is handed to libhoney and nothing is taken from
\* toBeResent.
DoneOnce ==
  /\ [](/\ nDone <= 1
        /\ sPC = "exit" => nDone = 1
        /\ nDone = 1 => /\ sPC = "exit"
                        /\ chClosed[NStages]
                        /\ toEmit = <<>>
                        /\ Len(primaryHanded) = Len(emitted))
  /\ [][nDone >= 1 => /\ Len(pending') <= Len(pending)
                      /\ IsPrefix(toBeResent, toBeResent')
                      /\ nDone' = nDone]_vars

\* an event re-injected after the done signal stays in toBeResent
DoneOnceWitness ==
  /\ nDone = 1
  /\ sPC = "exit"
  /\ toBeResent # <<>>
  /\ runPC = "exit"

\* run() is past <-doneSending
PastWait == runPC \in {"close", "flush", "exit"}

\* a retryable response is waiting in libhoney's responses channel
RetryableQueued ==
  \E i \in 1..Len(responses) :
    options.BackOff /\ responses[i].code \in {429, 500}

\* C7 as stated: once toBeSent is closed, run() eventually gets past
\* <-doneSending, whatever the back-off setting and the status codes.
ShutdownAlways == chClosed[0] ~> PastWait

\* C7, amended: if from some point on no retryable response is waiting (only
\* finitely many responses are retryable, as is always so with back-off off),
\* then once toBeSent is closed run() eventually gets past <-doneSending.
ShutdownLive == (<>[]~RetryableQueued) => (chClosed[0] ~> PastWait)

\* run() got past <-doneSending although an event had been resent
ShutdownLiveWitness ==
  /\ PastWait
  /\ options.BackOff
  /\ everResent
  /\ NStages > 0

\* sendEvent is blocked in libhEv.Send(): libhoney's pending queue is full
SenderBlocked == sPC \in {"sendR", "sendP"} /\ Len(pending) >= SendBufCap

\* libhoney is blocked writing a response: its responses channel is full
ClientBlocked == pending # <<>> /\ Len(responses) >= RespCap

\* handleResponses is blocked at delaySending <- 100 or at toBeResent <- ev
HandlerBlocked ==
  \/ hPC = "delay" /\ Len(delaySending) >= 2 * options.NumSenders
  \/ hPC = "resend" /\ Len(toBeResent) >= 2 * options.NumSenders

\* C8: with back-off on and any status codes, sustained 429 and 500 among
\* them, the sender blocked in Send, libhoney blocked writing a response and
\* the response handler blocked on a full toBeResent or delaySending never
\* coincide: the three never wait for each other in a cycle.
NeverHalts == ~(SenderBlocked /\ ClientBlocked /\ HandlerBlocked)

\* under sustained retryable answers the sender and libhoney are both
\* blocked while the response handler is about to re-inject an event: only
\* the handler can move, and toBeResent has room for it
NeverHaltsWitness ==
  /\ options.BackOff
  /\ SenderBlocked
  /\ ClientBlocked
  /\ hPC = "resend"
  /\ \A i \in 1..Len(responses) : responses[i].code \in {429, 500}

\* C9: the response handler survives a response whose Metadata holds no
\* event: it never panics.
HandlerToleratesNoMetadata == hPC # "panic"

\* the keys the explored options and data maps name
AllKeys == {kA, kB, kC}

RECURSIVE ApplyDrops(_, _)
ApplyDrops(fields, data) ==
  IF fields = <<>> THEN data
  ELSE ApplyDrops(Tail(fields), [k \in DOMAIN data \ {Head(fields)} |-> data[k]])

RECURSIVE ApplyScrubs(_, _)
ApplyScrubs(fields, data) ==
  IF fields = <<>> THEN data
  ELSE ApplyScrubs(Tail(fields),
         [k \in DOMAIN data |->
            IF k = Head(fields)
            THEN [t |-> "string", r |-> Sha256Hex(data[k].r)]
            ELSE data[k]])

RECURSIVE ApplyAdds(_, _)
ApplyAdds(fields, data) ==
  IF fields = <<>> THEN data
  ELSE LET kv == SplitN2(Head(fields)) IN
       ApplyAdds(Tail(fields),
         [k \in DOMAIN data \cup {kv[1]} |->
            IF k = kv[1] THEN [t |-> "string", r |-> kv[2]] ELSE data[k]])

\* the literals the add fields give key k
AddedLiterals(k) ==
  {[t |-> "string", r |-> SplitN2(f)[2]] :
     f \in {g \in Range(options.AddFields) : SplitN2(g)[1] = k}}

\* the data map the parser gave the event the sender holds
ParsedData(ev) == (CHOOSE e \in Range(emitted) : e.id = ev.id).Data

\* C10: the data map of an event the sender received from the chain is the
\* parser's map with all drops, then all scrubs, then all adds applied in
\* configured order; a key dropped and added, or scrubbed and added, holds
\* an added literal; a key dropped and scrubbed and not added is absent; a
\* key no option names is as the parser gave it.
MutationOrder ==
  sPC = "sendP" =>
    LET d == ParsedData(sEv)
        r == sEv.Data
        dropped(k) == k \in Range(options.DropFields)
        scrubbed(k) == k \in Range(options.ScrubFields)
        added(k) == AddedLiterals(k) # {}
    IN
    /\ r = ApplyAdds(options.AddFields,
             ApplyScrubs(options.ScrubFields,
               ApplyDrops(options.DropFields, d)))
    /\ \A k \in AllKeys :
         /\ (dropped(k) \/ scrubbed(k)) /\ added(k) =>
              k \in DOMAIN r /\ r[k] \in AddedLiterals(k)
         /\ dropped(k) /\ scrubbed(k) /\ ~added(k) => k \notin DOMAIN r
         /\ ~dropped(k) /\ ~scrubbed(k) /\ ~added(k) =>
              /\ k \in DOMAIN r <=> k \in DOMAIN d
              /\ k \in DOMAIN d => r[k] = d[k]

\* the sender holds an event whose key a was in the parser's map and is
\* dropped, scrubbed and added, and whose key b is only scrubbed
MutationOrderWitness ==
  /\ sPC = "sendP"
  /\ kA \in DOMAIN ParsedData(sEv)
  /\ kA \in Range(options.DropFields)
  /\ kA \in Range(options.ScrubFields)
  /\ AddedLiterals(kA) # {}
  /\ kB \in DOMAIN ParsedData(sEv)
  /\ kB \in Range(options.ScrubFields)
  /\ kB \notin Range(options.DropFields)
  /\ sEv.Data[kB] = [t |-> "string", r |-> <<"#", "1">>]


\* the digest applied n times
RECURSIVE HashTimes(_, _)
HashTimes(n, b) == IF n = 0 THEN b ELSE Sha256Hex(HashTimes(n - 1, b))

\* the scrub goroutines up to goroutine i that scrub its field
ScrubsUpTo(i) ==
  {j \in 1..i : Stages[j].kind = "scrub" /\ Stages[j].field = Stages[i].field}

\* C11 as stated: scrubbing the data map a scrub goroutine forwards once more
\* for the same field gives the same map.
ScrubIdempotent ==
  \A i \in 1..NStages :
    stPC[i] = "send" /\ Stages[i].kind = "scrub" =>
      scrubEventField(Stages[i].field, stEv[i].Data) = stEv[i].Data

\* C11, amended: scrubbing once more gives the same map when the event has
\* no key f; when it has, the value of f becomes the digest of the digest, a
\* different string, and every other key stays: n scrub goroutines for f in
\* a row leave the n-fold digest of the parser's value.
ScrubRehashes ==
  \A i \in 1..NStages :
    stPC[i] = "send" /\ Stages[i].kind = "scrub" =>
      LET f == Stages[i].field
          d == stEv[i].Data
          dd == scrubEventField(f, d)
      IN
      /\ f \notin DOMAIN d => dd = d
      /\ f \in DOMAIN d =>
           /\ DOMAIN dd = DOMAIN d
           /\ \A k \in DOMAIN d \ {f} : dd[k] = d[k]
           /\ dd[f] = [t |-> "string", r |-> Sha256Hex(d[f].r)]
           /\ dd[f] # d[f]
           /\ f \in DOMAIN ParsedData(stEv[i])
           /\ d[f] = [t |-> "string",
                      r |-> HashTimes(Cardinality(ScrubsUpTo(i)),
                                      ParsedData(stEv[i])[f].r)]

\* the second of two scrub goroutines for b forwards the digest of the digest
\* of the parser's integer
ScrubRehashesWitness ==
  \E i \in 2..NStages :
    /\ stPC[i] = "send"
    /\ Stages[i] = [kind |-> "scrub", field |-> kB]
    /\ Stages[i - 1] = Stages[i]
    /\ kB \in DOMAIN stEv[i].Data
    /\ stEv[i].Data[kB] = [t |-> "string", r |-> <<"#", "#", "1">>]

\* C12: every event an add goroutine forwards holds, under the text before
\* the first "=" of its k=v specification, the string made of everything
\* after that "=" (further "=" included), whatever the key held before.
AddSplitsOnFirstEq ==
  \A i \in 1..NStages :
    stPC[i] = "send" /\ Stages[i].kind = "add" =>
      LET f == Stages[i].field
          d == stEv[i].Data
      IN
      \E p \in 1..Len(f) :
        /\ f[p] = "="
        /\ \A q \in 1..(p - 1) : f[q] # "="
        /\ SubSeq(f, 1, p - 1) \in DOMAIN d
        /\ d[SubSeq(f, 1, p - 1)] = [t |-> "string", r |-> SubSeq(f, p + 1, Len(f))]

\* the goroutine of c=y=1 forwards an event with c = "y=1", whose key a, "x"
\* from the parser, was overwritten with "y" by the goroutine of a=y
AddSplitsOnFirstEqWitness ==
  \E i \in 2..NStages :
    /\ stPC[i] = "send"
    /\ Stages[i] = [kind |-> "add", field |-> <<"c", "=", "y", "=", "1">>]
    /\ Stages[i - 1] = [kind |-> "add", field |-> <<"a", "=", "y">>]
    /\ kA \in DOMAIN ParsedData(stEv[i])
    /\ ParsedData(stEv[i])[kA] = [t |-> "string", r |-> <<"x">>]
    /\ stEv[i].Data[kA] = [t |-> "string", r |-> <<"y">>]
    /\ stEv[i].Data[kC] = [t |-> "string", r |-> <<"y", "=", "1">>]

\* some --add_field holds no "="
MalformedAdd ==
  \E i \in 1..Len(options.AddFields) :
    \A q \in 1..Len(options.AddFields[i]) : options.AddFields[i][q] # "="

\* C13: with an add specification that holds no "=", run() never gets past
\* building the chain: the goroutine of that specification is never started,
\* nor are the sender and the response handler, the parser writes no event
\* and libhoney is handed none; and the add_field fatal exit is taken only
\* for such a specification.
AddNoEqIsFatal ==
  /\ MalformedAdd =>
       /\ runPC \in {"start", "chain", "noParser", "badAddField"}
       /\ sPC = "none"
       /\ hPC = "none"
       /\ emitted = <<>>
       /\ primaryHanded = <<>>
       /\ pending = <<>>
       /\ responses = <<>>
       /\ \A i \in 1..NStages :
            (Stages[i].kind = "add" /\ "=" \notin Range(Stages[i].field))
              => stPC[i] = "none"
       /\ (runPC = "chain" =>
             \E i \in 1..NStages : i > BuiltStages /\ Stages[i].kind = "add"
                                   /\ "=" \notin Range(Stages[i].field))
  /\ runPC = "badAddField" => MalformedAdd

\* the fatal exit is taken at the second add specification, with the drop
\* goroutine and the first add goroutine started and events waiting unread
AddNoEqIsFatalWitness ==
  /\ runPC = "badAddField"
  /\ BuiltStages = 2
  /\ stPC[3] = "none"
  /\ Len(toEmit) = MaxEvents
  /\ sPC = "none"

\* the parser names of the usage text
ListedParsers == {"nginx", "json", "mongo", "mysql", "postgresql"}

\* C14: a listed parser name gets run() past the parser lookup, every other
\* name ends it there with the fatal "Parser not found".
ParserNameRule ==
  /\ options.ParserName \in ListedParsers => runPC # "noParser"
  /\ (options.ParserName \notin ListedParsers /\ runPC # "start")
       => runPC = "noParser"

\* C16: no event handed to libhoney has the empty string among its keys.
NoEmptyKey ==
  \A i \in 1..Len(pending) : <<>> \notin DOMAIN pending[i].Data

\* C20: the delays the handler has published are never fewer than the events
\* it has re-injected and at most one more, the one more exactly while it
\* holds the event of a retryable response between the two writes; and
\* delaySending never holds more than 2 * NumSenders delays.
DelayBeforeReinject ==
  /\ delayLead \in {0, 1}
  /\ delayLead = 1 <=> hPC = "resend"
  /\ hPC = "delay" => delayLead = 0
  /\ Len(delaySending) <= 2 * options.NumSenders

\* delaySending is full of published delays, the last of them for the event
\* the handler is about to re-inject, after an earlier event was re-injected
\* and resent
DelayBeforeReinjectWitness ==
  /\ Len(delaySending) = 2 * options.NumSenders
  /\ hPC = "resend"
  /\ delayLead = 1
  /\ everResent

\* how often event id has been handed to libhoney: the answers the endpoint
\* gave for it and the attempts still pending
Attempts(id) ==
  Cardinality({j \in 1..Len(clientLog) : clientLog[j].id = id})
    + Cardinality({j \in 1..Len(pending) : pending[j].id = id})

\* the answers the endpoint gave for event id, in order
AnswersFor(id) ==
  LET idx == {j \in 1..Len(clientLog) : clientLog[j].id = id}
      nth(n) == CHOOSE j \in idx : Cardinality({m \in idx : m <= j}) = n
  IN [n \in 1..Cardinality(idx) |-> clientLog[nth(n)].code]

\* the re-injected event id is left behind on the retry path
Abandoned(id) ==
  \/ \E j \in 1..Len(toBeResent) : toBeResent[j].id = id
  \/ hPC \in {"delay", "resend"} /\ hRsp.meta.id = id
  \/ \E j \in 1..Len(responses) : responses[j].meta.id = id /\ responses[j].code = 429

\* C15 as stated: with the 429-then-200 endpoint every event has been handed
\* to libhoney exactly twice when run() returns.
HandedExactlyTwice ==
  runPC = "exit" => \A id \in Range(EmittedIds) : Attempts(id) = 2

\* C15, amended: every event is handed to libhoney at most twice, never a
\* third time, the first time from toBeSent and answered 429, the second
\* time from toBeResent and answered 200; when run() returns it was handed
\* over twice unless the sender had returned before it could take the
\* re-injected event, which is then left on the retry path.
HandedAtMostTwice ==
  \A id \in Range(EmittedIds) :
    /\ Attempts(id) <= 2
    /\ Attempts(id) >= 1 => id \in Range(primaryHanded)
    /\ Attempts(id) = 2 => everResent
    /\ IsPrefix(AnswersFor(id), <<429, 200>>)
    /\ nDone = 1 => Attempts(id) >= 1
    /\ (runPC = "exit" /\ Attempts(id) = 1) =>
         /\ sPC = "exit"
         /\ AnswersFor(id) = <<429>>
         /\ Abandoned(id)
    /\ (runPC = "exit" /\ Attempts(id) = 2) =>
         /\ AnswersFor(id) = <<429, 200>>
         /\ ~Abandoned(id)

\* run() has returned with MaxEvents events each handed over twice
HandedAtMostTwiceWitness ==
  /\ runPC = "exit"
  /\ Len(emitted) = MaxEvents
  /\ \A id \in Range(EmittedIds) : AnswersFor(id) = <<429, 200>>

\* C17: a goroutine of the chain has closed its newSent exactly when it has
\* left its loop, holding no event, and only with its input channel closed;
\* toBeSent is closed only when the parser has written all its events; a
\* closed channel stays closed and its goroutine gone, so none is closed
\* twice; and the sender sees the close only with every goroutine gone and
\* every event the parser wrote received and handed on.
CloseCascade ==
  /\ [](/\ \A i \in 1..NStages :
             /\ chClosed[i] <=> stPC[i] = "exit"
             /\ chClosed[i] => chClosed[i - 1]
        /\ chClosed[0] => toEmit = <<>>
        /\ sPC \in {"done", "exit"} =>
             /\ \A i \in 0..NStages : chClosed[i]
             /\ \A i \in 1..NStages : stPC[i] = "exit"
             /\ toEmit = <<>>
             /\ primaryHanded = EmittedIds)
  /\ [][\A i \in 0..NStages :
          chClosed[i] => /\ chClosed'[i]
                         /\ i >= 1 => stPC'[i] = "exit" /\ stEv'[i] = stEv[i]]_vars

\* the sender reads the close after MaxEvents events came through three
\* goroutines, each of which has closed its channel
CloseCascadeWitness ==
  /\ NStages = 3
  /\ sPC = "done"
  /\ \A i \in 0..NStages : chClosed[i]
  /\ Len(primaryHanded) = MaxEvents

\* C19: with back-off off, whatever the status codes, toBeResent and
\* delaySending stay empty, the handler keeps no response for a retry, the
\* sender neither sleeps on a delay nor hands over a resent event, and the
\* events handed to libhoney are those of toBeSent, each once and in order,
\* all of them when the done signal is given.
BackOffDisabled ==
  ~options.BackOff =>
    /\ toBeResent = <<>>
    /\ delaySending = <<>>
    /\ delayLead = 0
    /\ hPC = "recv"
    /\ hRsp = NoRsp
    /\ sPC \notin {"sleep", "sendR"}
    /\ ~it.slept
    /\ it.delayLen <= 0
    /\ it.retryLen <= 0
    /\ ~everResent
    /\ \A i, j \in 1..Len(primaryHanded) :
         i # j => primaryHanded[i] # primaryHanded[j]
    /\ IsPrefix(primaryHanded, EmittedIds)
    /\ Len(pending) <= Len(primaryHanded)
    /\ nDone = 1 => primaryHanded = EmittedIds

\* back-off is off, the done signal is given with MaxEvents events handed
\* over, and the answer to the last of them is a 429 the handler will drop
BackOffDisabledWitness ==
  /\ ~options.BackOff
  /\ nDone = 1
  /\ Len(primaryHanded) = MaxEvents
  /\ pending = <<>>
  /\ responses # <<>>
  /\ Head(responses).code = 429
  /\ toBeResent = <<>>

\* the positions of the input lines that start a record
Starts == {p \in 1..Len(lines) : lines[p].kind = "start"}

\* the last line of the record that starts at p
GroupEnd(p) ==
  IF \E q \in Starts : q > p
  THEN (CHOOSE q \in Starts : q > p /\ \A r \in Starts : r > p => q <= r) - 1
  ELSE Len(lines)

\* the text of line p and of the continuation lines after it up to e
RECURSIVE TextUpTo(_, _)
TextUpTo(p, e) ==
  IF p > e THEN <<>>
  ELSE LET rest == TextUpTo(p + 1, e) IN
       IF lines[p].kind = "blank" THEN rest
       ELSE IF rest = <<>> THEN lines[p].txt
       ELSE lines[p].txt \o <<" ">> \o rest

\* one event per line that starts a record, in input order
ExpectedEvents ==
  LET nth(n) == CHOOSE p \in Starts : Cardinality({q \in Starts : q <= p}) = n IN
  [n \in 1..Cardinality(Starts) |->
     [id |-> lines[nth(n)].ts,
      Data |-> (<<"q">> :> [t |-> "string", r |-> TextUpTo(nth(n), GroupEnd(nth(n)))])]]

\* C18: the events the parser has written, or is writing, to toBeSent are
\* the first of the expected ones, one per record-starting line in input
\* order, each built from that line and the continuation lines up to the
\* next record start; every record-starting line read so far is either
\* emitted or at the head of the buffered group; blank lines and lines
\* before the first record yield none; and when ProcessLines has returned
\* all expected events are written, the last group included.
ParserGroups ==
  LET out == emitted \o toEmit IN
  /\ IsPrefix(out, ExpectedEvents)
  /\ Len(out) + (IF group # <<>> /\ Head(group).kind = "start" THEN 1 ELSE 0)
       = Cardinality({p \in Starts : p <= nRead})
  /\ runPC # "parse" => /\ toEmit = <<>>
                        /\ group = <<>>
                        /\ nRead = Len(lines)
                        /\ emitted = ExpectedEvents
  /\ nDone = 1 => primaryHanded = [n \in 1..Len(ExpectedEvents) |-> ExpectedEvents[n].id]

\* a blank line, a record of two lines, and a last record of one line that
\* only the flush at the close emits: two events, ProcessLines has returned
ParserGroupsWitness ==
  /\ runPC = "wait"
  /\ Len(lines) = 4
  /\ lines[1].kind = "blank"
  /\ lines[2].kind = "start"
  /\ lines[3].kind = "cont"
  /\ lines[4].kind = "start"
  /\ Len(emitted) = 2
  /\ emitted[1] = [id |-> 2, Data |-> (<<"q">> :> [t |-> "string", r |-> <<"2", " ", "3">>])]
  /\ emitted[2] = [id |-> 4, Data |-> (<<"q">> :> [t |-> "string", r |-> <<"4">>])]
====
